---- MODULE Spec2Model ----
(***************************************************************************)
(* Model of the CRM mock service (crmService) of CRM-PRO-VB: the four      *)
(* in-memory lists and the async CRUD / analytics functions over them.     *)
(*                                                                         *)
(* Encodings.                                                              *)
(*  - An object is a function from its field names to values; a field the  *)
(*    object does not have is outside its DOMAIN (JavaScript undefined).   *)
(*  - An id string is a natural: the seed id 'k' is k, the n-th value      *)
(*    returned by uuidv4() is UuidBase + n.                                *)
(*  - A 'YYYY-MM-DD' date string is the number of days since 2024-01-14    *)
(*    (string order of ISO dates is day order).  The wall clock `now` is   *)
(*    counted in ticks of 1/TicksPerDay day.                               *)
(*  - An ISO timestamp string is the number of minutes since               *)
(*    2024-01-14T00:00:00Z.                                                *)
(*  - Money is in thousands of dollars.                                    *)
(*  - A JavaScript number that results from a division is a record         *)
(*    [k, n, d]: k = "num" (the rational n/d), "NaN" or "Infinity".        *)
(***************************************************************************)
EXTENDS Integers, Sequences, FiniteSets, TLC

\* ------------------------------------------------------------------ bounds
\* number of create/update/delete calls explored from the seed store
MaxSteps == 2
\* number of clock ticks explored after start-up
MaxTicks == 1
\* clock ticks per calendar day
TicksPerDay == 2
\* tick count of the clock when the module is loaded (late on day 100)
StartNow == 201
\* an id argument that no record carries
AbsentId == 77
\* offset of the generated ids
UuidBase == 1000
\* number of customers in the stores of the top-customers specification
TopCust == 6

VARIABLES customers, contacts, deals, activities, now, nextUuid, steps, call, result,
          inflight, page, form, dash, hook

vars == <<customers, contacts, deals, activities, now, nextUuid, steps, call, result,
          inflight, page, form, dash, hook>>

\* the React state of the Customers page, the customer form, the Dashboard
\* page and the useApi hook
views == <<page, form, dash, hook>>

lists == <<customers, contacts, deals, activities>>

\* ------------------------------------------------------------ seed data
SeedCustomers ==
  << [id |-> 1, name |-> "Stripe Inc.", status |-> "active", revenue |-> 14000000,
      tier |-> "enterprise", healthScore |-> 95,
      address |-> [city |-> "San Francisco", state |-> "CA"],
      createdAt |-> 1, updatedAt |-> 56],
     [id |-> 2, name |-> "Notion Labs", status |-> "active", revenue |-> 500000,
      tier |-> "enterprise", healthScore |-> 88,
      address |-> [city |-> "San Francisco", state |-> "CA"],
      createdAt |-> 6, updatedAt |-> 58] >>

SeedContacts ==
  << [id |-> 1, customerId |-> 1, firstName |-> "Patrick", status |-> "active",
      createdAt |-> 1, updatedAt |-> 54] >>

SeedDeals ==
  << [id |-> 1, customerId |-> 1, title |-> "Enterprise Platform License",
      value |-> 2500, stage |-> "closed-won", status |-> "won",
      createdAt |-> 1, updatedAt |-> 42],
     [id |-> 2, customerId |-> 2, title |-> "Team Workspace Solution",
      value |-> 750, stage |-> "negotiation", status |-> "active",
      createdAt |-> 6, updatedAt |-> 58] >>

SeedActivities ==
  << [id |-> 1, type |-> "deal_won", timestamp |-> 84390, relatedId |-> 10],
     [id |-> 2, type |-> "meeting", timestamp |-> 82680, relatedId |-> 1],
     [id |-> 3, type |-> "deal_won", timestamp |-> 78765, relatedId |-> 4],
     [id |-> 4, type |-> "email", timestamp |-> 81195, relatedId |-> 6],
     [id |-> 5, type |-> "call", timestamp |-> 87300, relatedId |-> 10],
     [id |-> 6, type |-> "deal_created", timestamp |-> 68370, relatedId |-> 11],
     [id |-> 7, type |-> "contact_added", timestamp |-> 17880, relatedId |-> 7],
     [id |-> 8, type |-> "deal_won", timestamp |-> 65820, relatedId |-> 7] >>

\* ------------------------------------------------- arguments of the calls
\* partial-field objects passed as customerData
CustomerData ==
  { [name |-> "Test Co", address |-> [city |-> "X"]],
    [id |-> 1, createdAt |-> 999],
    [status |-> "inactive", healthScore |-> 40, updatedAt |-> 0] }

\* partial-field objects passed as contactData
ContactData ==
  { [customerId |-> 1, firstName |-> "Ann"],
    [id |-> 1, updatedAt |-> 0] }

\* partial-field objects passed as dealData
DealData ==
  { [stage |-> "closed-won", status |-> "won"],
    [customerId |-> 2, title |-> "New", value |-> 100, stage |-> "qualification"],
    [id |-> 2, createdAt |-> 999, status |-> "lost"] }

EmptyObj == [f \in {} |-> 0]

\* ids a caller can pass: the ids in the list and one that is absent
IdArgs(list) == {list[i].id : i \in 1..Len(list)} \cup {AbsentId}

\* -------------------------------------------------------------- helpers
\* {...a, ...b}
Spread(a, b) ==
  [f \in DOMAIN a \cup DOMAIN b |-> IF f \in DOMAIN b THEN b[f] ELSE a[f]]

\* new Date().toISOString().split('T')[0]
Today == now \div TicksPerDay

\* uuidv4()
uuidv4 == UuidBase + nextUuid

\* list.findIndex(x => x.id === id): 0-based, -1 when absent
findIndex(list, id) ==
  IF \E i \in 1..Len(list) : list[i].id = id
  THEN (CHOOSE i \in 1..Len(list) :
          /\ list[i].id = id
          /\ \A j \in 1..(i-1) : list[j].id # id) - 1
  ELSE -1

\* variant: list.splice(index), without the delete count
spliceToEnd(list, index) ==
  LET at == IF index < 0 THEN Len(list) + index + 1 ELSE index + 1
  IN  IF at < 1 \/ at > Len(list) THEN list ELSE SubSeq(list, 1, at - 1)

\* list.splice(index, 1); a negative index counts from the end
splice(list, index) ==
  LET at == IF index < 0 THEN Len(list) + index + 1 ELSE index + 1
  IN  IF at < 1 \/ at > Len(list) THEN list
      ELSE SubSeq(list, 1, at - 1) \o SubSeq(list, at + 1, Len(list))

\* list[index] = rec
setAt(list, index, rec) == [list EXCEPT ![index + 1] = rec]

\* results of the async functions
Returned(kind, val) == [kind |-> kind, val |-> val]
Thrown(msg) == [kind |-> "error", val |-> msg]
Undefined == [kind |-> "undefined", val |-> 0]
Success == [kind |-> "success", val |-> TRUE]

\* list.find(x => x.id === id)
find(list, id) ==
  LET index == findIndex(list, id)
  IN  IF index = -1 THEN Undefined ELSE Returned("record", list[index + 1])

Call(op, ent, id, data) == [op |-> op, ent |-> ent, id |-> id, data |-> data]

\* ------------------------------------------------- React state at mount
\* null, where the other values are strings
Null == "null"

\* null, where the other values are objects: a list with no element, an
\* object x being <<x>>
None == << >>

\* Customers: the useState initial values; nothing is mounted yet, no
\* window.confirm dialog is open, and window.confirm has returned nothing
PageUnmounted ==
  [mounted |-> FALSE, customers |-> << >>, loading |-> TRUE, error |-> Null,
   showModal |-> FALSE, editingCustomer |-> None, dialog |-> None, answer |-> FALSE]

\* a form field's text: a string is the sequence of its characters
Blank == << >>

\* CustomerForm: the useState initial values
FormBlank ==
  [formData |-> [name |-> Blank, email |-> Blank, phone |-> Blank, industry |-> Blank,
                 address |-> [street |-> Blank, city |-> Blank, state |-> Blank,
                              zipCode |-> Blank, country |-> <<"U", "S", "A">>]],
   errors |-> EmptyObj,
   loading |-> FALSE]

\* Dashboard: the useState initial values; waiting holds the calls of
\* Promise.all that have not settled, held the activities a fulfilled
\* getActivities returned, settled whether Promise.all has settled
DashUnmounted ==
  [mounted |-> FALSE, stats |-> None, activities |-> << >>, loading |-> TRUE,
   error |-> Null, waiting |-> {}, held |-> << >>, settled |-> FALSE]

\* useApi: a hook that no component uses yet; fetches lists the calls of
\* fetch in the order they were started, each with its url and its state
HookUnused ==
  [used |-> FALSE, url |-> Null, immediate |-> TRUE, data |-> None,
   loading |-> FALSE, error |-> Null, fetches |-> << >>]

\* ------------------------------------------------------------------ Init
Init ==
  /\ customers = SeedCustomers
  /\ contacts = SeedContacts
  /\ deals = SeedDeals
  /\ activities = SeedActivities
  /\ now = StartNow
  /\ nextUuid = 1
  /\ steps = 0
  /\ call = Call("none", "none", 0, EmptyObj)
  /\ result = Returned("none", 0)
  /\ inflight = << >>
  /\ page = PageUnmounted
  /\ form = FormBlank
  /\ dash = DashUnmounted
  /\ hook = HookUnused

\* the wall clock advances
Tick ==
  /\ now < StartNow + MaxTicks
  /\ now' = now + 1
  /\ UNCHANGED <<customers, contacts, deals, activities, nextUuid, steps, call, result>>

\* -------------------------------------------------------- customer calls
newCustomer(customerData) ==
  Spread(Spread([id |-> uuidv4], customerData),
         [status |-> "active", healthScore |-> 80, tier |-> "startup",
          createdAt |-> Today, updatedAt |-> Today])

createCustomer(customerData) ==
  /\ steps < MaxSteps
  /\ steps' = steps + 1
  /\ nextUuid' = nextUuid + 1
  /\ customers' = Append(customers, newCustomer(customerData))
  /\ call' = Call("create", "customers", 0, customerData)
  /\ result' = Returned("record", newCustomer(customerData))
  /\ UNCHANGED <<contacts, deals, activities, now>>

\* {...a, ...b} with the nested address objects merged field by field
DeepSpread(a, b) ==
  [f \in DOMAIN a \cup DOMAIN b |->
     IF f \in DOMAIN b
     THEN (IF f = "address" /\ f \in DOMAIN a THEN Spread(a[f], b[f]) ELSE b[f])
     ELSE a[f]]

\* variant: the update merges nested objects instead of replacing them
updatedRecordDeep(old, data) == Spread(DeepSpread(old, data), [updatedAt |-> Today])

\* variant: the update stamps updatedAt before it spreads the partial
updatedRecordStampFirst(old, data) == Spread(Spread(old, [updatedAt |-> Today]), data)

\* { ...list[index], ...data, updatedAt: today }
updatedRecord(old, data) == Spread(Spread(old, data), [updatedAt |-> Today])

updateCustomer(id, customerData) ==
  LET index == findIndex(customers, id) IN
  /\ steps < MaxSteps
  /\ steps' = steps + 1
  /\ call' = Call("update", "customers", id, customerData)
  /\ IF index = -1
     THEN /\ result' = Thrown("Customer not found")
          /\ UNCHANGED customers
     ELSE /\ customers' = setAt(customers, index, updatedRecord(customers[index + 1], customerData))
          /\ result' = Returned("record", customers'[index + 1])
  /\ UNCHANGED <<contacts, deals, activities, now, nextUuid>>

\* variant: deleteCustomer without the not-found check
deleteCustomerUnguarded(id) ==
  LET index == findIndex(customers, id) IN
  /\ steps < MaxSteps
  /\ steps' = steps + 1
  /\ call' = Call("delete", "customers", id, EmptyObj)
  /\ customers' = splice(customers, index)
  /\ result' = Success
  /\ UNCHANGED <<contacts, deals, activities, now, nextUuid>>

\* variant: deleteCustomer also removes the customer's contacts and deals
deleteCustomerCascade(id) ==
  LET index == findIndex(customers, id)
      others(list) == SelectSeq(list, LAMBDA x : ~("customerId" \in DOMAIN x /\ x.customerId = id))
  IN
  /\ steps < MaxSteps
  /\ steps' = steps + 1
  /\ call' = Call("delete", "customers", id, EmptyObj)
  /\ IF index = -1
     THEN /\ result' = Thrown("Customer not found")
          /\ UNCHANGED <<customers, contacts, deals>>
     ELSE /\ customers' = splice(customers, index)
          /\ contacts' = others(contacts)
          /\ deals' = others(deals)
          /\ result' = Success
  /\ UNCHANGED <<activities, now, nextUuid>>

deleteCustomer(id) ==
  LET index == findIndex(customers, id) IN
  /\ steps < MaxSteps
  /\ steps' = steps + 1
  /\ call' = Call("delete", "customers", id, EmptyObj)
  /\ IF index = -1
     THEN /\ result' = Thrown("Customer not found")
          /\ UNCHANGED customers
     ELSE /\ customers' = splice(customers, index)
          /\ result' = Success
  /\ UNCHANGED <<contacts, deals, activities, now, nextUuid>>

getCustomer(id) ==
  /\ call' = Call("get", "customers", id, EmptyObj)
  /\ result' = find(customers, id)
  /\ UNCHANGED <<customers, contacts, deals, activities, now, nextUuid, steps>>

\* --------------------------------------------------------- contact calls
newContact(contactData) ==
  Spread(Spread([id |-> uuidv4], contactData),
         [status |-> "active", createdAt |-> Today, updatedAt |-> Today])

createContact(contactData) ==
  /\ steps < MaxSteps
  /\ steps' = steps + 1
  /\ nextUuid' = nextUuid + 1
  /\ contacts' = Append(contacts, newContact(contactData))
  /\ call' = Call("create", "contacts", 0, contactData)
  /\ result' = Returned("record", newContact(contactData))
  /\ UNCHANGED <<customers, deals, activities, now>>

updateContact(id, contactData) ==
  LET index == findIndex(contacts, id) IN
  /\ steps < MaxSteps
  /\ steps' = steps + 1
  /\ call' = Call("update", "contacts", id, contactData)
  /\ IF index = -1
     THEN /\ result' = Thrown("Contact not found")
          /\ UNCHANGED contacts
     ELSE /\ contacts' = setAt(contacts, index, updatedRecord(contacts[index + 1], contactData))
          /\ result' = Returned("record", contacts'[index + 1])
  /\ UNCHANGED <<customers, deals, activities, now, nextUuid>>

deleteContact(id) ==
  LET index == findIndex(contacts, id) IN
  /\ steps < MaxSteps
  /\ steps' = steps + 1
  /\ call' = Call("delete", "contacts", id, EmptyObj)
  /\ IF index = -1
     THEN /\ result' = Thrown("Contact not found")
          /\ UNCHANGED contacts
     ELSE /\ contacts' = splice(contacts, index)
          /\ result' = Success
  /\ UNCHANGED <<customers, deals, activities, now, nextUuid>>

getContact(id) ==
  /\ call' = Call("get", "contacts", id, EmptyObj)
  /\ result' = find(contacts, id)
  /\ UNCHANGED <<customers, contacts, deals, activities, now, nextUuid, steps>>

\* ------------------------------------------------------------ deal calls
newDeal(dealData) ==
  Spread(Spread([id |-> uuidv4], dealData),
         [status |-> "active", createdAt |-> Today, updatedAt |-> Today])

createDeal(dealData) ==
  /\ steps < MaxSteps
  /\ steps' = steps + 1
  /\ nextUuid' = nextUuid + 1
  /\ deals' = Append(deals, newDeal(dealData))
  /\ call' = Call("create", "deals", 0, dealData)
  /\ result' = Returned("record", newDeal(dealData))
  /\ UNCHANGED <<customers, contacts, activities, now>>

updateDeal(id, dealData) ==
  LET index == findIndex(deals, id) IN
  /\ steps < MaxSteps
  /\ steps' = steps + 1
  /\ call' = Call("update", "deals", id, dealData)
  /\ IF index = -1
     THEN /\ result' = Thrown("Deal not found")
          /\ UNCHANGED deals
     ELSE /\ deals' = setAt(deals, index, updatedRecord(deals[index + 1], dealData))
          /\ result' = Returned("record", deals'[index + 1])
  /\ UNCHANGED <<customers, contacts, activities, now, nextUuid>>

deleteDeal(id) ==
  LET index == findIndex(deals, id) IN
  /\ steps < MaxSteps
  /\ steps' = steps + 1
  /\ call' = Call("delete", "deals", id, EmptyObj)
  /\ IF index = -1
     THEN /\ result' = Thrown("Deal not found")
          /\ UNCHANGED deals
     ELSE /\ deals' = splice(deals, index)
          /\ result' = Success
  /\ UNCHANGED <<customers, contacts, activities, now, nextUuid>>

getDeal(id) ==
  /\ call' = Call("get", "deals", id, EmptyObj)
  /\ result' = find(deals, id)
  /\ UNCHANGED <<customers, contacts, deals, activities, now, nextUuid, steps>>

\* ------------------------------------------------------------- analytics
\* JavaScript numbers
Num(n) == [k |-> "num", n |-> n, d |-> 1]
NaN == [k |-> "NaN", n |-> 0, d |-> 1]
Infinity == [k |-> "Infinity", n |-> 0, d |-> 1]

\* a / b on non-negative integers
JsDiv(a, b) ==
  IF b = 0 THEN (IF a = 0 THEN NaN ELSE Infinity)
  ELSE [k |-> "num", n |-> a, d |-> b]

\* x * m
JsTimes(x, m) == IF x.k = "num" THEN [x EXCEPT !.n = x.n * m] ELSE x

\* Math.round(x) on a non-negative quotient
MathRound(x) ==
  IF x.k = "num" THEN Num((2 * x.n + x.d) \div (2 * x.d)) ELSE x

\* variant: the count without the status filter
countStatusAll(list, status) == Len(list)

\* list.filter(x => x.status === status).length
countStatus(list, status) ==
  Cardinality({i \in 1..Len(list) : list[i].status = status})

RECURSIVE sumHealth(_)
\* customers.reduce((sum, c) => sum + (c.healthScore || 0), 0) over a prefix
sumHealth(n) ==
  IF n = 0 THEN 0
  ELSE sumHealth(n - 1)
       + (IF "healthScore" \in DOMAIN customers[n] THEN customers[n].healthScore ELSE 0)

RECURSIVE sumValue(_, _)
\* list.filter(d => d.status === status).reduce((sum, d) => sum + d.value, 0)
\* over a prefix; adding the undefined value of a deal without one gives NaN
sumValue(n, status) ==
  IF n = 0 THEN Num(0)
  ELSE LET rest == sumValue(n - 1, status)
       IN  IF deals[n].status # status THEN rest
           ELSE IF rest.k # "num" \/ "value" \notin DOMAIN deals[n] THEN NaN
           ELSE Num(rest.n + deals[n].value)

RECURSIVE sumRevenue(_)
\* customers.reduce((sum, c) => sum + (c.revenue || 0), 0) over a prefix
sumRevenue(n) ==
  IF n = 0 THEN 0
  ELSE sumRevenue(n - 1)
       + (IF "revenue" \in DOMAIN customers[n] THEN customers[n].revenue ELSE 0)

\* variant: the bucket without the status filter
pipelineStageAnyStatus(stage) ==
  LET keep(d) == "stage" \in DOMAIN d /\ d.stage = stage
  IN  SelectSeq(deals, keep)

\* deals.filter(d => d.stage === stage && d.status === 'active'); a deal
\* without a stage has the stage undefined
pipelineStage(stage) ==
  LET keep(d) == "stage" \in DOMAIN d /\ d.stage = stage /\ d.status = "active"
  IN  SelectSeq(deals, keep)

\* number of entries kept by topCustomers: slice(0, 5)
TopN == 5

RECURSIVE customerDealValue(_, _)
\* deals.filter(d => d.customerId === id && d.status === 'won')
\*      .reduce((sum, d) => sum + d.value, 0) over a prefix of deals
customerDealValue(n, id) ==
  IF n = 0 THEN Num(0)
  ELSE LET rest == customerDealValue(n - 1, id)
           d == deals[n]
       IN  IF ~("customerId" \in DOMAIN d /\ d.customerId = id /\ d.status = "won") THEN rest
           ELSE IF rest.k # "num" \/ "value" \notin DOMAIN d THEN NaN
           ELSE Num(rest.n + d.value)

\* customers.map(customer => ({ ...customer, dealValue }))
withDealValue ==
  [i \in 1..Len(customers) |->
     Spread(customers[i], [dealValue |-> customerDealValue(Len(deals), customers[i].id)])]

\* x > 0 on a JavaScript number: false for NaN
JsPositive(x) == x.k = "Infinity" \/ (x.k = "num" /\ x.n > 0)

\* variant: the comparator a.dealValue - b.dealValue (ascending)
insertAsc(sorted, c) ==
  LET before == {k \in 1..Len(sorted) : sorted[k].dealValue.n <= c.dealValue.n}
      at == IF before = {} THEN 0 ELSE CHOOSE k \in before : \A m \in before : m <= k
  IN  SubSeq(sorted, 1, at) \o <<c>> \o SubSeq(sorted, at + 1, Len(sorted))

\* one step of the stable sort with the comparator b.dealValue - a.dealValue:
\* c goes after the last entry whose dealValue is not smaller
insertDesc(sorted, c) ==
  LET before == {k \in 1..Len(sorted) : sorted[k].dealValue.n >= c.dealValue.n}
      at == IF before = {} THEN 0 ELSE CHOOSE k \in before : \A m \in before : m <= k
  IN  SubSeq(sorted, 1, at) \o <<c>> \o SubSeq(sorted, at + 1, Len(sorted))

RECURSIVE sortByDealValue(_, _)
\* list.sort((a, b) => b.dealValue - a.dealValue) of the first n entries
sortByDealValue(list, n) ==
  IF n = 0 THEN <<>>
  ELSE CHOOSE sorted \in {insertDesc(placed, list[n]) :
                             placed \in {sortByDealValue(list, n - 1)}} : TRUE

\* the topCustomers list of getDashboardStats
topCustomers ==
  LET positive(c) == JsPositive(c.dealValue)
      kept == SelectSeq(withDealValue, positive)
      sorted == sortByDealValue(kept, Len(kept))
  IN  SubSeq(sorted, 1, IF Len(sorted) < TopN THEN Len(sorted) ELSE TopN)

\* the hand-written monthly revenue trend
monthlyRevenue ==
  << [month |-> "Oct", value |-> 1850], [month |-> "Nov", value |-> 2100],
     [month |-> "Dec", value |-> 2450], [month |-> "Jan", value |-> 2680],
     [month |-> "Feb", value |-> 3185], [month |-> "Mar", value |-> 3520] >>

\* the object returned by getDashboardStats
dashboardStats ==
  LET totalCustomers == Len(customers)
      activeCustomers == countStatus(customers, "active")
      totalContacts == Len(contacts)
      totalDeals == Len(deals)
      activeDeals == countStatus(deals, "active")
      wonDeals == countStatus(deals, "won")
      lostDeals == countStatus(deals, "lost")
      avgHealthScore == JsDiv(sumHealth(totalCustomers), totalCustomers)
  IN  [totalCustomers |-> totalCustomers,
       activeCustomers |-> activeCustomers,
       totalContacts |-> totalContacts,
       totalDeals |-> totalDeals,
       activeDeals |-> activeDeals,
       wonDeals |-> wonDeals,
       lostDeals |-> lostDeals,
       totalDealValue |-> sumValue(totalDeals, "active"),
       wonDealValue |-> sumValue(totalDeals, "won"),
       totalRevenue |-> sumRevenue(totalCustomers),
       pipeline |-> [qualification |-> pipelineStage("qualification"),
                     proposal |-> pipelineStage("proposal"),
                     negotiation |-> pipelineStage("negotiation")],
       monthlyRevenue |-> monthlyRevenue,
       topCustomers |-> topCustomers,
       recentActivities |-> SubSeq(activities, 1, IF Len(activities) < 5 THEN Len(activities) ELSE 5),
       avgHealthScore |-> MathRound(avgHealthScore),
       conversionRate |-> IF totalDeals > 0
                          THEN JsTimes(JsDiv(wonDeals, wonDeals + lostDeals), 100)
                          ELSE Num(0)]

getDashboardStats ==
  /\ call' = Call("stats", "none", 0, EmptyObj)
  /\ result' = Returned("stats", dashboardStats)
  /\ UNCHANGED <<customers, contacts, deals, activities, now, nextUuid, steps>>

Next ==
  \/ Tick /\ UNCHANGED <<inflight, views>>
  \/ \E d \in CustomerData : createCustomer(d) /\ UNCHANGED <<inflight, views>>
  \/ \E id \in IdArgs(customers), d \in CustomerData : updateCustomer(id, d) /\ UNCHANGED <<inflight, views>>
  \/ \E id \in IdArgs(customers) : deleteCustomer(id) /\ UNCHANGED <<inflight, views>>
  \/ \E id \in IdArgs(customers) : getCustomer(id) /\ UNCHANGED <<inflight, views>>
  \/ \E d \in ContactData : createContact(d) /\ UNCHANGED <<inflight, views>>
  \/ \E id \in IdArgs(contacts), d \in ContactData : updateContact(id, d) /\ UNCHANGED <<inflight, views>>
  \/ \E id \in IdArgs(contacts) : deleteContact(id) /\ UNCHANGED <<inflight, views>>
  \/ \E id \in IdArgs(contacts) : getContact(id) /\ UNCHANGED <<inflight, views>>
  \/ \E d \in DealData : createDeal(d) /\ UNCHANGED <<inflight, views>>
  \/ \E id \in IdArgs(deals), d \in DealData : updateDeal(id, d) /\ UNCHANGED <<inflight, views>>
  \/ \E id \in IdArgs(deals) : deleteDeal(id) /\ UNCHANGED <<inflight, views>>
  \/ \E id \in IdArgs(deals) : getDeal(id) /\ UNCHANGED <<inflight, views>>
  \/ getDashboardStats /\ UNCHANGED <<inflight, views>>

Spec == Init /\ [][Next]_vars

\* ------------------------------------- stores for the top-customers list
\* A store built by TopCust createCustomer calls, one createDeal call per
\* customer and one more createDeal call, with some of the deals then closed
\* by updateDeal(id, {stage: 'closed-won', status: 'won'}).
TopCustomer(i) ==
  [id |-> UuidBase + i, name |-> "Test Co", address |-> [city |-> "X"],
   status |-> "active", healthScore |-> 80, tier |-> "startup",
   createdAt |-> StartNow \div TicksPerDay, updatedAt |-> StartNow \div TicksPerDay]

TopDeal(j, customer, status) ==
  [id |-> UuidBase + TopCust + j, customerId |-> UuidBase + customer, title |-> "New",
   stage |-> IF status = "won" THEN "closed-won" ELSE "qualification",
   status |-> status,
   createdAt |-> StartNow \div TicksPerDay, updatedAt |-> StartNow \div TicksPerDay]

\* the deal of customer j: won or active, worth 100 or 200
TopDealChoice == {"won", "active"} \X {100, 200}

\* the extra deal: a second won deal of the first or of the last customer,
\* or a won deal of the first customer that was created without a value
TopExtra ==
  { Spread(TopDeal(TopCust + 1, 1, "won"), [value |-> 150]),
    Spread(TopDeal(TopCust + 1, TopCust, "won"), [value |-> 150]),
    TopDeal(TopCust + 1, 1, "won") }

InitTop ==
  /\ customers = [i \in 1..TopCust |-> TopCustomer(i)]
  /\ \E choice \in [1..TopCust -> TopDealChoice], extra \in TopExtra :
       deals = [j \in 1..TopCust |->
                  Spread(TopDeal(j, j, choice[j][1]), [value |-> choice[j][2]])]
               \o <<extra>>
  /\ contacts = SeedContacts
  /\ activities = SeedActivities
  /\ now = StartNow
  /\ nextUuid = 2 * TopCust + 2
  /\ steps = 0
  /\ call = Call("none", "none", 0, EmptyObj)
  /\ result = Returned("none", 0)
  /\ inflight = << >>
  /\ page = PageUnmounted
  /\ form = FormBlank
  /\ dash = DashUnmounted
  /\ hook = HookUnused

NextTop == getDashboardStats /\ UNCHANGED <<inflight, views>>

SpecTop == InitTop /\ [][NextTop]_vars

\* ------------------------------------------------------------ list reads
\* a call that leaves the argument out
NoArg == -1

\* the empty string ''
EmptyId == 0

\* limit = 10
DefaultLimit == 10

\* if (customerId): undefined, null and '' are falsy
Truthy(customerId) == customerId # NoArg /\ customerId # EmptyId

\* list.filter(x => x.customerId === customerId)
filterByCustomer(list, customerId) ==
  SelectSeq(list, LAMBDA x : "customerId" \in DOMAIN x /\ x.customerId = customerId)

\* the customerId arguments a caller passes for a list
CustomerIdArgs(list) ==
  {NoArg, EmptyId, AbsentId}
    \cup {list[i].customerId : i \in {n \in 1..Len(list) : "customerId" \in DOMAIN list[n]}}

\* an array handed to the caller: its items and the array it is ("fresh" is
\* an array made by the call, otherwise the name of the store array)
ListResult(items, ref) == Returned("list", [items |-> items, ref |-> ref])

\* variant: getCustomers hands out the store array itself
getCustomersAliased ==
  /\ call' = Call("list", "customers", NoArg, EmptyObj)
  /\ result' = ListResult(customers, "customers")
  /\ UNCHANGED <<customers, contacts, deals, activities, now, nextUuid, steps>>

\* return [...customers]
getCustomers ==
  /\ call' = Call("list", "customers", NoArg, EmptyObj)
  /\ result' = ListResult(customers, "fresh")
  /\ UNCHANGED <<customers, contacts, deals, activities, now, nextUuid, steps>>

getContacts(customerId) ==
  /\ call' = Call("list", "contacts", customerId, EmptyObj)
  /\ result' = ListResult(IF Truthy(customerId)
                          THEN filterByCustomer(contacts, customerId)
                          ELSE contacts, "fresh")
  /\ UNCHANGED <<customers, contacts, deals, activities, now, nextUuid, steps>>

getDeals(customerId) ==
  /\ call' = Call("list", "deals", customerId, EmptyObj)
  /\ result' = ListResult(IF Truthy(customerId)
                          THEN filterByCustomer(deals, customerId)
                          ELSE deals, "fresh")
  /\ UNCHANGED <<customers, contacts, deals, activities, now, nextUuid, steps>>

\* new Date(timestamp), counted in seconds
DateOf(timestamp) == timestamp * 60

\* variant: the comparator is (a, b) => new Date(a.timestamp) - new Date(b.timestamp)
insertOldestFirst(sorted, a) ==
  LET before == {i \in 1..Len(sorted) :
                   DateOf(sorted[i].timestamp) - DateOf(a.timestamp) <= 0}
      k == Cardinality(before)
  IN  SubSeq(sorted, 1, k) \o <<a>> \o SubSeq(sorted, k + 1, Len(sorted))

\* one step of the stable sort with the comparator
\* (a, b) => new Date(b.timestamp) - new Date(a.timestamp)
insertLatestFirst(sorted, a) ==
  LET before == {i \in 1..Len(sorted) :
                   DateOf(a.timestamp) - DateOf(sorted[i].timestamp) <= 0}
      k == Cardinality(before)
  IN  SubSeq(sorted, 1, k) \o <<a>> \o SubSeq(sorted, k + 1, Len(sorted))

\* [...list].sort(comparator), n = number of elements already placed
RECURSIVE sortByTimestamp(_, _)
sortByTimestamp(list, n) ==
  IF n = 0 THEN << >>
  ELSE CHOOSE sorted \in {insertLatestFirst(placed, list[n]) :
                             placed \in {sortByTimestamp(list, n - 1)}} : TRUE

\* list.slice(0, end); a negative end counts from the end of the list
slice(list, end) ==
  LET to == IF end < 0 THEN Len(list) + end ELSE end
  IN  IF to <= 0 THEN << >>
      ELSE IF to >= Len(list) THEN list
      ELSE SubSeq(list, 1, to)

\* the limits a caller passes: none, 0, 3, and the Dashboard page's 8
LimitArgs == {NoArg, 0, 3, 8}

getActivities(limit) ==
  LET lim == IF limit = NoArg THEN DefaultLimit ELSE limit IN
  /\ call' = Call("activities", "activities", limit, EmptyObj)
  /\ result' = ListResult(slice(sortByTimestamp(activities, Len(activities)), lim), "fresh")
  /\ UNCHANGED <<customers, contacts, deals, activities, now, nextUuid, steps>>

\* the array ref names, after the caller has changed it to items
storeAfter(ref, name, list, items) == IF ref = name THEN items ELSE list

\* the caller pushes an element onto the array it was handed, or pops one
callerMutates(push) ==
  LET got == result.val
      items == IF push THEN Append(got.items, [id |-> AbsentId])
               ELSE SubSeq(got.items, 1, Len(got.items) - 1)
  IN  /\ call.op \in {"list", "activities"}
      /\ push \/ Len(got.items) > 0
      /\ call' = Call(IF push THEN "push" ELSE "pop", call.ent, call.id, EmptyObj)
      /\ result' = ListResult(items, got.ref)
      /\ customers' = storeAfter(got.ref, "customers", customers, items)
      /\ contacts' = storeAfter(got.ref, "contacts", contacts, items)
      /\ deals' = storeAfter(got.ref, "deals", deals, items)
      /\ activities' = storeAfter(got.ref, "activities", activities, items)
      /\ UNCHANGED <<now, nextUuid, steps>>

\* the list reads never read the clock: it stands still here
NextReads ==
  \/ \E data \in CustomerData : createCustomer(data) /\ UNCHANGED <<inflight, views>>
  \/ \E id \in IdArgs(customers), data \in CustomerData : updateCustomer(id, data) /\ UNCHANGED <<inflight, views>>
  \/ \E id \in IdArgs(customers) : deleteCustomer(id) /\ UNCHANGED <<inflight, views>>
  \/ \E data \in ContactData : createContact(data) /\ UNCHANGED <<inflight, views>>
  \/ \E id \in IdArgs(contacts), data \in ContactData : updateContact(id, data) /\ UNCHANGED <<inflight, views>>
  \/ \E id \in IdArgs(contacts) : deleteContact(id) /\ UNCHANGED <<inflight, views>>
  \/ \E data \in DealData : createDeal(data) /\ UNCHANGED <<inflight, views>>
  \/ \E id \in IdArgs(deals), data \in DealData : updateDeal(id, data) /\ UNCHANGED <<inflight, views>>
  \/ \E id \in IdArgs(deals) : deleteDeal(id) /\ UNCHANGED <<inflight, views>>
  \/ getCustomers /\ UNCHANGED <<inflight, views>>
  \/ \E customerId \in CustomerIdArgs(contacts) : getContacts(customerId) /\ UNCHANGED <<inflight, views>>
  \/ \E customerId \in CustomerIdArgs(deals) : getDeals(customerId) /\ UNCHANGED <<inflight, views>>
  \/ \E limit \in LimitArgs : getActivities(limit) /\ UNCHANGED <<inflight, views>>
  \/ \E push \in BOOLEAN : callerMutates(push) /\ UNCHANGED <<inflight, views>>

SpecReads == Init /\ [][NextReads]_vars

\* ------------------------------------------------------- calls in flight
\* Every create, update and delete starts with await delay(400): the calls
\* in flight resume in the order they were made, and the code after the
\* await runs without interruption.  A day is far longer than the delay:
\* the clock stands still here.

\* a call waiting in its delay, with the calls that completed meanwhile
Pending(op, ent, id, data) ==
  [op |-> op, ent |-> ent, id |-> id, data |-> data, seen |-> << >>]

\* a completed call as the calls still waiting have seen it
Completed(c, kind) ==
  [op |-> c.op, ent |-> c.ent, id |-> c.id, data |-> c.data, kind |-> kind]

\* the call is made: it runs up to its await
invoke(op, ent, id, data) ==
  /\ steps + Len(inflight) < MaxSteps
  /\ inflight' = Append(inflight, Pending(op, ent, id, data))
  /\ UNCHANGED <<customers, contacts, deals, activities, now, nextUuid, steps, call, result>>

\* the code of the call after its await
body(c) ==
  \/ c.op = "create" /\ c.ent = "customers" /\ createCustomer(c.data)
  \/ c.op = "update" /\ c.ent = "customers" /\ updateCustomer(c.id, c.data)
  \/ c.op = "delete" /\ c.ent = "customers" /\ deleteCustomer(c.id)
  \/ c.op = "create" /\ c.ent = "contacts" /\ createContact(c.data)
  \/ c.op = "update" /\ c.ent = "contacts" /\ updateContact(c.id, c.data)
  \/ c.op = "delete" /\ c.ent = "contacts" /\ deleteContact(c.id)
  \/ c.op = "create" /\ c.ent = "deals" /\ createDeal(c.data)
  \/ c.op = "update" /\ c.ent = "deals" /\ updateDeal(c.id, c.data)
  \/ c.op = "delete" /\ c.ent = "deals" /\ deleteDeal(c.id)

\* the timer of the oldest call in flight fires
resume ==
  /\ inflight # << >>
  /\ body(Head(inflight))
  /\ inflight' = [k \in 1..(Len(inflight) - 1) |->
                    [inflight[k + 1] EXCEPT
                       !.seen = Append(@, Completed(Head(inflight), result'.kind))]]

NextAsync ==
  \/ \E data \in CustomerData : invoke("create", "customers", 0, data) /\ UNCHANGED views
  \/ \E id \in IdArgs(customers), data \in CustomerData : invoke("update", "customers", id, data) /\ UNCHANGED views
  \/ \E id \in IdArgs(customers) : invoke("delete", "customers", id, EmptyObj) /\ UNCHANGED views
  \/ \E data \in ContactData : invoke("create", "contacts", 0, data) /\ UNCHANGED views
  \/ \E id \in IdArgs(contacts), data \in ContactData : invoke("update", "contacts", id, data) /\ UNCHANGED views
  \/ \E id \in IdArgs(contacts) : invoke("delete", "contacts", id, EmptyObj) /\ UNCHANGED views
  \/ \E data \in DealData : invoke("create", "deals", 0, data) /\ UNCHANGED views
  \/ \E id \in IdArgs(deals), data \in DealData : invoke("update", "deals", id, data) /\ UNCHANGED views
  \/ \E id \in IdArgs(deals) : invoke("delete", "deals", id, EmptyObj) /\ UNCHANGED views
  \/ resume /\ UNCHANGED views

SpecAsync == Init /\ [][NextAsync]_vars

\* -------------------------------------------------------- Customers page
\* the create, update and delete calls the page makes in a run
PageCalls == 3

\* await delay(300) of getCustomers and await delay(400) of the writes
ListDelay == 300

WriteDelay == 400

delayOf(op) == IF op = "list" THEN ListDelay ELSE WriteDelay

\* what CustomerForm hands to onSubmit once validateForm has passed
PageFormData ==
  {[name |-> n, email |-> "info@test.co", phone |-> "555-0100", industry |-> "Software",
    address |-> [street |-> "", city |-> "Austin", state |-> "TX", zipCode |-> "",
                 country |-> "USA"]] : n \in {"Test Co", "Test Inc"}}

\* the store as loaded and the page not yet mounted
InitPage ==
  /\ customers = SeedCustomers
  /\ contacts = SeedContacts
  /\ deals = SeedDeals
  /\ activities = SeedActivities
  /\ now = StartNow
  /\ nextUuid = 1
  /\ steps = MaxSteps - PageCalls
  /\ call = Call("none", "none", 0, EmptyObj)
  /\ result = Returned("none", 0)
  /\ inflight = << >>
  /\ page = PageUnmounted
  /\ form = FormBlank
  /\ dash = DashUnmounted
  /\ hook = HookUnused

\* the page makes a service call: it runs up to the call's await
pageCall(op, id, data) ==
  /\ inflight' = Append(inflight, Pending(op, "customers", id, data))
  /\ UNCHANGED <<customers, contacts, deals, activities, now, nextUuid, steps, call, result>>
  /\ UNCHANGED <<form, dash, hook>>

\* the writes the page has in flight
writesInFlight == Cardinality({k \in 1..Len(inflight) : inflight[k].op # "list"})

\* one more write fits the run
writeFits == steps + writesInFlight < MaxSteps

\* the page is rendered with its controls: it is mounted, no confirm dialog
\* blocks the thread, and it does not show the loading spinner
controls == page.mounted /\ page.dialog = None /\ ~page.loading

\* useEffect(() => { fetchCustomers(); }, [])
pageMount ==
  /\ ~page.mounted
  /\ page' = [page EXCEPT !.mounted = TRUE, !.loading = TRUE]
  /\ pageCall("list", NoArg, EmptyObj)

\* variant: fetchCustomers starts with setError(null)
fetchCustomersClearing ==
  /\ controls
  /\ page.error # Null
  /\ page' = [page EXCEPT !.loading = TRUE, !.error = Null]
  /\ pageCall("list", NoArg, EmptyObj)

\* the Retry button of the error banner
fetchCustomers ==
  /\ controls
  /\ page.error # Null
  /\ page' = [page EXCEPT !.loading = TRUE]
  /\ pageCall("list", NoArg, EmptyObj)

\* the Add Customer button: setShowModal(true)
addCustomer ==
  /\ controls
  /\ page' = [page EXCEPT !.showModal = TRUE]
  /\ UNCHANGED <<customers, contacts, deals, activities, now, nextUuid, steps, call, result>>
  /\ UNCHANGED <<inflight, form, dash, hook>>

\* the Edit button of the i-th card
handleEditCustomer(i) ==
  /\ controls
  /\ page' = [page EXCEPT !.editingCustomer = <<page.customers[i]>>, !.showModal = TRUE]
  /\ UNCHANGED <<customers, contacts, deals, activities, now, nextUuid, steps, call, result>>
  /\ UNCHANGED <<inflight, form, dash, hook>>

\* the modal's onClose and the form's onCancel
handleCloseModal ==
  /\ controls
  /\ page.showModal
  /\ page' = [page EXCEPT !.showModal = FALSE, !.editingCustomer = None]
  /\ UNCHANGED <<customers, contacts, deals, activities, now, nextUuid, steps, call, result>>
  /\ UNCHANGED <<inflight, form, dash, hook>>

\* the form in the modal submits:
\* onSubmit = editingCustomer ? handleUpdateCustomer : handleCreateCustomer
submitForm(customerData) ==
  /\ controls
  /\ page.showModal
  /\ writeFits
  /\ UNCHANGED page
  /\ IF page.editingCustomer # None
     THEN pageCall("update", page.editingCustomer[1].id, customerData)
     ELSE pageCall("create", 0, customerData)

\* the Delete button of the i-th card: window.confirm opens
handleDeleteCustomer(i) ==
  /\ controls
  /\ writeFits
  /\ page' = [page EXCEPT !.dialog = <<page.customers[i].id>>]
  /\ UNCHANGED <<customers, contacts, deals, activities, now, nextUuid, steps, call, result>>
  /\ UNCHANGED <<inflight, form, dash, hook>>

\* variant: the delete call is made whatever window.confirm returns
confirmIgnored(accepted) ==
  /\ page.dialog # None
  /\ page' = [page EXCEPT !.dialog = None, !.answer = accepted]
  /\ pageCall("delete", page.dialog[1], EmptyObj)

\* window.confirm returns
confirm(accepted) ==
  /\ page.dialog # None
  /\ page' = [page EXCEPT !.dialog = None, !.answer = accepted]
  /\ IF accepted
     THEN pageCall("delete", page.dialog[1], EmptyObj)
     ELSE /\ UNCHANGED <<customers, contacts, deals, activities, now, nextUuid, steps, call, result>>
          /\ UNCHANGED <<inflight, form, dash, hook>>

\* variant: the page keeps its list as it is after an update
mapStale(prev, id, updatedCustomer) == prev

\* prev.map(customer => customer.id === id ? updatedCustomer : customer)
mapUpdated(prev, id, updatedCustomer) ==
  [i \in 1..Len(prev) |-> IF prev[i].id = id THEN updatedCustomer ELSE prev[i]]

\* prev.filter(customer => customer.id !== customerId)
filterOut(prev, customerId) == SelectSeq(prev, LAMBDA customer : customer.id # customerId)

\* the rest of the handler that awaited the call c, which settled as res
afterAwait(c, res) ==
  CASE c.op = "list" ->
         [page EXCEPT !.customers = res.val.items, !.loading = FALSE]
    [] c.op = "create" ->
         [page EXCEPT !.customers = Append(@, res.val), !.showModal = FALSE]
    [] c.op = "update" ->
         IF res.kind = "error" THEN [page EXCEPT !.error = res.val]
         ELSE [page EXCEPT !.customers = mapUpdated(@, c.id, res.val),
                           !.showModal = FALSE, !.editingCustomer = None]
    [] OTHER ->
         IF res.kind = "error" THEN [page EXCEPT !.error = res.val]
         ELSE [page EXCEPT !.customers = filterOut(@, c.id)]

\* the k-th call in flight may be the next to resume: no call made before it
\* has a delay that ends sooner
mayResume(k) == \A j \in 1..(k - 1) : delayOf(inflight[j].op) > delayOf(inflight[k].op)

\* the timer of the k-th call fires: the service code after the await runs,
\* then the rest of the handler
pageResume(k) ==
  /\ page.dialog = None
  /\ mayResume(k)
  /\ IF inflight[k].op = "list" THEN getCustomers ELSE body(inflight[k])
  /\ inflight' = SubSeq(inflight, 1, k - 1) \o SubSeq(inflight, k + 1, Len(inflight))
  /\ page' = afterAwait(inflight[k], result')
  /\ UNCHANGED <<form, dash, hook>>

NextPage ==
  \/ pageMount
  \/ fetchCustomers
  \/ addCustomer
  \/ \E i \in 1..Len(page.customers) : handleEditCustomer(i)
  \/ handleCloseModal
  \/ \E customerData \in PageFormData : submitForm(customerData)
  \/ \E i \in 1..Len(page.customers) : handleDeleteCustomer(i)
  \/ \E accepted \in BOOLEAN : confirm(accepted)
  \/ \E k \in 1..Len(inflight) : pageResume(k)

SpecPage == InitPage /\ [][NextPage]_vars

\* ---------------------------------------------------------- CustomerForm
\* \s
IsSpace(c) == c = " "

\* variant: the required checks do not trim
trimNot(s) == s

\* s.trim()
trim(s) ==
  LET kept == {i \in 1..Len(s) : ~IsSpace(s[i])}
  IN  IF kept = {} THEN << >>
      ELSE LET first == CHOOSE i \in kept : \A j \in kept : i <= j
               last == CHOOSE i \in kept : \A j \in kept : j <= i
           IN  SubSeq(s, first, last)

\* the characters from..to of s match [^\s@]+
plainRun(s, from, to) ==
  /\ from <= to
  /\ \A i \in from..to : ~IsSpace(s[i]) /\ s[i] # "@"

\* /^[^\s@]+@[^\s@]+\.[^\s@]+$/.test(s)
emailTest(s) ==
  \E at \in 1..Len(s), dot \in 1..Len(s) :
    /\ s[at] = "@" /\ s[dot] = "."
    /\ plainRun(s, 1, at - 1)
    /\ plainRun(s, at + 1, dot - 1)
    /\ plainRun(s, dot + 1, Len(s))

\* the newErrors object of validateForm, one check after the other
newErrors(formData) ==
  LET e1 == IF trim(formData.name) = << >>
            THEN [name |-> "Company name is required"] ELSE EmptyObj
      e2 == IF trim(formData.email) = << >>
            THEN Spread(e1, [email |-> "Email is required"])
            ELSE IF ~emailTest(formData.email)
                 THEN Spread(e1, [email |-> "Please enter a valid email address"])
                 ELSE e1
      e3 == IF trim(formData.phone) = << >>
            THEN Spread(e2, [phone |-> "Phone number is required"]) ELSE e2
      e4 == IF trim(formData.industry) = << >>
            THEN Spread(e3, [industry |-> "Industry is required"]) ELSE e3
      e5 == IF trim(formData.address.city) = << >>
            THEN Spread(e4, [city |-> "City is required"]) ELSE e4
  IN  IF trim(formData.address.state) = << >>
      THEN Spread(e5, [state |-> "State is required"]) ELSE e5

\* the texts typed into the fields
NameTexts == {Blank, <<" ">>, <<"a">>}

EmailTexts == {Blank, <<" ">>, <<"a", "@", "b">>, <<"a", "@", "b", ".", "c">>}

OtherTexts == {Blank, <<"x">>}

\* the fields that handleInputChange is called for, with the texts
FieldTexts ==
  ({"name"} \X NameTexts) \cup ({"email"} \X EmailTexts)
    \cup ({"phone", "industry", "address.city", "address.state"} \X OtherTexts)

\* field.includes('.')
nested(field) == field \in {"address.city", "address.state"}

\* field.split('.')[1]
child(field) == IF field = "address.city" THEN "city" ELSE "state"

\* the Customers page as it is once it has loaded and Add Customer was
\* clicked: the modal shows the form in create mode
InitForm ==
  /\ customers = SeedCustomers
  /\ contacts = SeedContacts
  /\ deals = SeedDeals
  /\ activities = SeedActivities
  /\ now = StartNow
  /\ nextUuid = 1
  /\ steps = 0
  /\ call = Call("none", "none", 0, EmptyObj)
  /\ result = Returned("none", 0)
  /\ inflight = << >>
  /\ page = [PageUnmounted EXCEPT !.mounted = TRUE, !.customers = SeedCustomers,
                                  !.loading = FALSE, !.showModal = TRUE]
  /\ form = FormBlank
  /\ dash = DashUnmounted
  /\ hook = HookUnused

\* the user types into a field
handleInputChange(field, value) ==
  /\ page.showModal
  /\ form' = [form EXCEPT
                !.formData = IF nested(field)
                             THEN [@ EXCEPT !.address = [@ EXCEPT ![child(field)] = value]]
                             ELSE [@ EXCEPT ![field] = value],
                !.errors = IF field \in DOMAIN @ /\ @[field] # ""
                           THEN [@ EXCEPT ![field] = ""] ELSE @]
  /\ call' = Call("input", "form", 0, EmptyObj)
  /\ result' = Returned("none", 0)
  /\ UNCHANGED <<customers, contacts, deals, activities, now, nextUuid, steps>>
  /\ UNCHANGED <<inflight, page, dash, hook>>

\* the form is submitted: validateForm, then onSubmit(formData) up to the
\* await of the service call
handleSubmit ==
  LET errors == newErrors(form.formData)
      valid == DOMAIN errors = {}
  IN  /\ page.showModal
      /\ call' = Call("submit", "form", 0, form.formData)
      /\ result' = Returned("valid", valid)
      /\ IF valid
         THEN /\ steps + Len(inflight) < MaxSteps
              /\ form' = [form EXCEPT !.errors = errors, !.loading = TRUE]
              /\ inflight' = Append(inflight,
                   IF page.editingCustomer # None
                   THEN Pending("update", "customers", page.editingCustomer[1].id, form.formData)
                   ELSE Pending("create", "customers", 0, form.formData))
         ELSE /\ form' = [form EXCEPT !.errors = errors]
              /\ UNCHANGED inflight
      /\ UNCHANGED <<customers, contacts, deals, activities, now, nextUuid, steps>>
      /\ UNCHANGED <<page, dash, hook>>

\* the service call of the oldest submit completes: the service code, the
\* rest of the page's handler, then the finally block of handleSubmit
formResume ==
  /\ inflight # << >>
  /\ body(Head(inflight))
  /\ inflight' = Tail(inflight)
  /\ page' = afterAwait(Head(inflight), result')
  /\ form' = [form EXCEPT !.loading = FALSE]
  /\ UNCHANGED <<dash, hook>>

NextForm ==
  \/ \E input \in FieldTexts : handleInputChange(input[1], input[2])
  \/ handleSubmit
  \/ formResume

SpecForm == InitForm /\ [][NextForm]_vars

\* -------------------------------------------------------- Dashboard page
\* crmService.getActivities(8)
DashLimit == 8

\* writes of other pages while the Dashboard is shown
DashWrites == 1

\* the message of the error a rejected call carries
Rejections == {"Request failed"}

\* the seeded store, the Dashboard not yet mounted
InitDash ==
  /\ customers = SeedCustomers
  /\ contacts = SeedContacts
  /\ deals = SeedDeals
  /\ activities = SeedActivities
  /\ now = StartNow
  /\ nextUuid = 1
  /\ steps = MaxSteps - DashWrites
  /\ call = Call("none", "none", 0, EmptyObj)
  /\ result = Returned("none", 0)
  /\ inflight = << >>
  /\ page = PageUnmounted
  /\ form = FormBlank
  /\ dash = DashUnmounted
  /\ hook = HookUnused

\* useEffect(() => { fetchData(); }, []): setLoading(true) and the two calls
\* of Promise.all, each up to its await
dashMount ==
  /\ ~dash.mounted
  /\ dash' = [dash EXCEPT !.mounted = TRUE, !.loading = TRUE,
                          !.waiting = {"stats", "activities"}]
  /\ UNCHANGED <<customers, contacts, deals, activities, now, nextUuid, steps, call, result>>
  /\ UNCHANGED <<inflight, page, form, hook>>

\* variant: the catch block does not call setError
rejectedSilent(d, message) ==
  IF d.settled THEN d
  ELSE [d EXCEPT !.loading = FALSE, !.settled = TRUE]

\* Promise.all rejects with the first rejection: catch { setError(err.message) }
\* finally { setLoading(false) }; a later rejection is ignored
rejected(d, message) ==
  IF d.settled THEN d
  ELSE [d EXCEPT !.error = message, !.loading = FALSE, !.settled = TRUE]

\* Promise.all fulfils once both calls have: setStats, setActivities,
\* finally { setLoading(false) }
fulfilled(d, statsData, activitiesData) ==
  IF d.settled THEN d
  ELSE [d EXCEPT !.stats = <<statsData>>, !.activities = activitiesData,
                 !.loading = FALSE, !.settled = TRUE]

\* a call of the page that rejects: the store is not touched
callRejects(op, message) ==
  /\ call' = Call(op, "none", 0, EmptyObj)
  /\ result' = Thrown(message)
  /\ UNCHANGED <<customers, contacts, deals, activities, now, nextUuid, steps>>

\* getActivities settles; its delay(200) ends before the delay(300) of
\* getDashboardStats
activitiesSettle ==
  /\ "activities" \in dash.waiting
  /\ \/ /\ getActivities(DashLimit)
        /\ dash' = [dash EXCEPT !.waiting = @ \ {"activities"},
                                !.held = result'.val.items]
     \/ \E message \in Rejections :
          /\ callRejects("activities", message)
          /\ dash' = [rejected(dash, message) EXCEPT !.waiting = @ \ {"activities"}]
  /\ UNCHANGED <<inflight, page, form, hook>>

\* getDashboardStats settles
statsSettle ==
  /\ dash.waiting = {"stats"}
  /\ \/ /\ getDashboardStats
        /\ dash' = [fulfilled(dash, result'.val, dash.held) EXCEPT !.waiting = {}]
     \/ \E message \in Rejections :
          /\ callRejects("stats", message)
          /\ dash' = [rejected(dash, message) EXCEPT !.waiting = {}]
  /\ UNCHANGED <<inflight, page, form, hook>>

\* the store changes under the Dashboard through the service's writes
NextDash ==
  \/ dashMount
  \/ activitiesSettle
  \/ statsSettle
  \/ \E data \in CustomerData : createCustomer(data) /\ UNCHANGED <<inflight, views>>
  \/ \E id \in IdArgs(customers), data \in CustomerData : updateCustomer(id, data) /\ UNCHANGED <<inflight, views>>
  \/ \E id \in IdArgs(customers) : deleteCustomer(id) /\ UNCHANGED <<inflight, views>>
  \/ \E data \in DealData : createDeal(data) /\ UNCHANGED <<inflight, views>>
  \/ \E id \in IdArgs(deals), data \in DealData : updateDeal(id, data) /\ UNCHANGED <<inflight, views>>
  \/ \E id \in IdArgs(deals) : deleteDeal(id) /\ UNCHANGED <<inflight, views>>

SpecDash == InitDash /\ [][NextDash]_vars

\* a timer that was set fires
SpecDashLive == SpecDash /\ WF_vars(activitiesSettle) /\ WF_vars(statsSettle)

\* ------------------------------------------------------------ useApi hook
\* fetches started by one hook
MaxFetches == 3

\* the url argument: an endpoint, or no url
Urls == {"/api/customers", "/api/deals"}
UrlArgs == Urls \cup {Null}

\* the body the server sends for the n-th fetch, of url
Response(n, url) == [url |-> url, fetch |-> n]

\* err.message of a response that is not ok, and of a fetch that rejects
Failures == {"HTTP error! status: 500", "Failed to fetch"}

\* fetchData up to its await: if (!url) return; setLoading(true);
\* setError(null); fetch(url, ...)
fetchData(h) ==
  IF h.url = Null THEN h
  ELSE [h EXCEPT !.loading = TRUE, !.error = Null,
                 !.fetches = Append(@, [url |-> h.url, state |-> "pending"])]

\* a component calls useApi(url, options, immediate): useState(immediate) for
\* loading, and the effect calls fetchData if immediate
useApi(url, immediate) ==
  /\ ~hook.used
  /\ LET h == [hook EXCEPT !.used = TRUE, !.url = url, !.immediate = immediate,
                           !.loading = immediate]
     IN  hook' = IF immediate THEN fetchData(h) ELSE h
  /\ UNCHANGED <<customers, contacts, deals, activities, now, nextUuid, steps, call, result>>
  /\ UNCHANGED <<inflight, page, form, dash>>

\* the component renders with another url: fetchData is a new callback and
\* the effect runs again
urlChanges(url) ==
  /\ hook.used
  /\ url # hook.url
  /\ Len(hook.fetches) < MaxFetches
  /\ LET h == [hook EXCEPT !.url = url]
     IN  hook' = IF hook.immediate THEN fetchData(h) ELSE h
  /\ UNCHANGED <<customers, contacts, deals, activities, now, nextUuid, steps, call, result>>
  /\ UNCHANGED <<inflight, page, form, dash>>

\* refetch()
refetch ==
  /\ hook.used
  /\ Len(hook.fetches) < MaxFetches
  /\ hook' = fetchData(hook)
  /\ UNCHANGED <<customers, contacts, deals, activities, now, nextUuid, steps, call, result>>
  /\ UNCHANGED <<inflight, page, form, dash>>

\* the n-th fetch is answered with an ok response: setData(result), and
\* finally setLoading(false)
responseOk(n) ==
  /\ n \in 1..Len(hook.fetches)
  /\ hook.fetches[n].state = "pending"
  /\ hook' = [hook EXCEPT !.data = <<Response(n, hook.fetches[n].url)>>,
                          !.loading = FALSE,
                          !.fetches[n].state = "ok"]
  /\ UNCHANGED <<customers, contacts, deals, activities, now, nextUuid, steps, call, result>>
  /\ UNCHANGED <<inflight, page, form, dash>>

\* the n-th fetch fails: setError(err.message), and finally setLoading(false)
responseFails(n, message) ==
  /\ n \in 1..Len(hook.fetches)
  /\ hook.fetches[n].state = "pending"
  /\ hook' = [hook EXCEPT !.error = message,
                          !.loading = FALSE,
                          !.fetches[n].state = "failed"]
  /\ UNCHANGED <<customers, contacts, deals, activities, now, nextUuid, steps, call, result>>
  /\ UNCHANGED <<inflight, page, form, dash>>

NextApi ==
  \/ \E url \in UrlArgs, immediate \in BOOLEAN : useApi(url, immediate)
  \/ \E url \in UrlArgs : urlChanges(url)
  \/ refetch
  \/ \E n \in 1..MaxFetches : responseOk(n)
  \/ \E n \in 1..MaxFetches, message \in Failures : responseFails(n, message)

SpecApi == Init /\ [][NextApi]_vars

\* ================================================================ claims
\* the list of an entity type
EntList(ent) ==
  CASE ent = "customers" -> customers
    [] ent = "contacts" -> contacts
    [] ent = "deals" -> deals
    [] OTHER -> activities

\* the list of an entity type after the step
EntListNext(ent) ==
  CASE ent = "customers" -> customers'
    [] ent = "contacts" -> contacts'
    [] ent = "deals" -> deals'
    [] OTHER -> activities'

\* some record of the list carries the id
HasId(list, id) == \E i \in 1..Len(list) : list[i].id = id

\* position (1-based) of the first record carrying the id
FirstAt(list, id) ==
  CHOOSE i \in 1..Len(list) : list[i].id = id /\ \A j \in 1..(i - 1) : list[j].id # id

NotFoundMsg(ent) ==
  CASE ent = "customers" -> "Customer not found"
    [] ent = "contacts" -> "Contact not found"
    [] OTHER -> "Deal not found"

\* the step is a create, update or delete call
MutatingStep == steps' = steps + 1

\* the step is a successful updateX call
UpdateStep == MutatingStep /\ call'.op = "update" /\ result'.kind = "record"

\* C1: whenever getDashboardStats has just returned and the store has no won
\* and no lost deal, the conversionRate it returned is the number 0.
C1_ConversionRateZero ==
  (call.op = "stats" /\ countStatus(deals, "won") = 0 /\ countStatus(deals, "lost") = 0)
    => (result.val.conversionRate.k = "num" /\ result.val.conversionRate.n = 0)

\* C2: whenever getDashboardStats has just returned and the customer list is
\* empty, the avgHealthScore it returned is the number 0.
C2_AvgHealthZeroWhenEmpty ==
  (call.op = "stats" /\ Len(customers) = 0)
    => (result.val.avgHealthScore.k = "num" /\ result.val.avgHealthScore.n = 0)

UniqueIds(list) ==
  \A i, j \in 1..Len(list) : list[i].id = list[j].id => i = j

\* C3: in every reachable state no two customers, no two contacts and no two
\* deals have the same id.
C3_IdsUnique == UniqueIds(customers) /\ UniqueIds(contacts) /\ UniqueIds(deals)

\* C4: a successful updateX(id, partial) leaves the id of the record at the
\* updated position, and of the record it returns, as it was before the call.
C4_IdImmutable ==
  [][UpdateStep =>
       LET list == EntList(call'.ent)
           at == FirstAt(list, call'.id)
       IN  /\ EntListNext(call'.ent)[at].id = list[at].id
           /\ result'.val.id = list[at].id]_vars

\* C5: getX(id) right after createX(partial), with the id createX returned,
\* returns a record that agrees with partial on every field of partial other
\* than id, createdAt and updatedAt.
C5_CreateThenGet ==
  [][(/\ call.op = "create"
      /\ call'.op = "get"
      /\ call'.ent = call.ent
      /\ call'.id = result.val.id)
       => /\ result'.kind = "record"
          /\ \A f \in DOMAIN call.data \ {"id", "createdAt", "updatedAt"} :
               f \in DOMAIN result'.val /\ result'.val[f] = call.data[f]]_vars

\* C6: updateX and deleteX with an id that no record of the list carries throw
\* the entity's not-found error and leave the four lists as they were (so the
\* id is still absent and a repeated call fails the same way).
C6_NotFoundLeavesStore ==
  [][(MutatingStep /\ call'.op \in {"update", "delete"} /\ ~HasId(EntList(call'.ent), call'.id))
       => /\ result' = Thrown(NotFoundMsg(call'.ent))
          /\ lists' = lists
          /\ ~HasId(EntListNext(call'.ent), call'.id)]_vars

\* C6 witness: an update or a delete of an absent id has failed
C6_Witness ==
  /\ call.op \in {"update", "delete"}
  /\ call.id = AbsentId
  /\ result.kind = "error"

\* C7: a successful deleteX(id) shortens the list by exactly one record, and
\* a getX(id) issued right after it returns undefined.
C7_DeleteThenGetAbsent ==
  [][/\ (MutatingStep /\ call'.op = "delete" /\ result'.kind = "success")
          => Len(EntListNext(call'.ent)) = Len(EntList(call'.ent)) - 1
     /\ (/\ call.op = "delete" /\ result.kind = "success"
         /\ call'.op = "get" /\ call'.ent = call.ent /\ call'.id = call.id)
          => result' = Undefined]_vars

\* the frame of a successful update: every field the partial does not name,
\* other than updatedAt, keeps its value; every other record, the length of
\* the list and the other lists are unchanged
UpdateFrame ==
  LET list == EntList(call'.ent)
      after == EntListNext(call'.ent)
      at == FirstAt(list, call'.id)
      data == call'.data
  IN  /\ \A f \in DOMAIN list[at] \ (DOMAIN data \cup {"updatedAt"}) :
           f \in DOMAIN after[at] /\ after[at][f] = list[at][f]
      /\ Len(after) = Len(list)
      /\ \A j \in 1..Len(list) : j # at => after[j] = list[j]
      /\ \A e \in {"customers", "contacts", "deals", "activities"} :
           e # call'.ent => EntListNext(e) = EntList(e)
      /\ result'.val = after[at]

\* the fields in `named` take the partial's value wholesale
TakesPartial(named) ==
  LET after == EntListNext(call'.ent)
      at == FirstAt(EntList(call'.ent), call'.id)
  IN  \A f \in named : f \in DOMAIN after[at] /\ after[at][f] = call'.data[f]

\* C8 (as stated): a successful update gives every field named in the partial
\* the partial's value and keeps the frame.
C8_ShallowMergeAllFields ==
  [][UpdateStep => (TakesPartial(DOMAIN call'.data) /\ UpdateFrame)]_vars

\* C8 (amended): a successful update gives every field named in the partial
\* other than updatedAt the partial's value (nested objects replaced whole)
\* and keeps the frame.
C8_ShallowMerge ==
  [][UpdateStep => (TakesPartial(DOMAIN call'.data \ {"updatedAt"}) /\ UpdateFrame)]_vars

\* C8 witness: an update that supplied an address with only a city has
\* succeeded, and the stored address has lost its state
C8_Witness ==
  /\ call.op = "update"
  /\ result.kind = "record"
  /\ "address" \in DOMAIN call.data
  /\ "state" \notin DOMAIN result.val.address

DatesOrdered(list) ==
  \A i \in 1..Len(list) : list[i].updatedAt >= list[i].createdAt

\* C9: every customer, contact and deal has updatedAt >= createdAt.
C9_UpdatedNotBeforeCreated ==
  DatesOrdered(customers) /\ DatesOrdered(contacts) /\ DatesOrdered(deals)

\* C10 (as stated): a successful update makes the record's updatedAt the date
\* of the call, and that is later than its updatedAt before the call.
C10_UpdatedAtStrictlyLater ==
  [][UpdateStep =>
       LET list == EntList(call'.ent)
           at == FirstAt(list, call'.id)
       IN  /\ EntListNext(call'.ent)[at].updatedAt = Today
           /\ EntListNext(call'.ent)[at].updatedAt > list[at].updatedAt]_vars

\* C10 (amended): a successful update makes the record's updatedAt the date
\* of the call, whatever updatedAt the partial supplies, and that is never
\* earlier than its updatedAt before the call.
C10_UpdatedAtRefreshed ==
  [][UpdateStep =>
       LET list == EntList(call'.ent)
           at == FirstAt(list, call'.id)
       IN  /\ EntListNext(call'.ent)[at].updatedAt = Today
           /\ EntListNext(call'.ent)[at].updatedAt >= list[at].updatedAt]_vars

\* C10 witness: an update whose partial supplied another updatedAt has
\* succeeded and the record carries the date of the call
C10_Witness ==
  /\ call.op = "update"
  /\ result.kind = "record"
  /\ "updatedAt" \in DOMAIN call.data
  /\ call.data.updatedAt # Today
  /\ result.val.updatedAt = Today

\* C11: every createCustomer call returns, and appends at the end of the
\* customer list, a record whose id is the generated one, whose status is the
\* default 'active' and whose createdAt and updatedAt are the date of the call.
C11_CreateCustomerRecord ==
  [][(MutatingStep /\ call'.op = "create" /\ call'.ent = "customers")
       => /\ result'.kind = "record"
          /\ customers' = Append(customers, result'.val)
          /\ result'.val.id = uuidv4
          /\ result'.val.status = "active"
          /\ result'.val.createdAt = Today
          /\ result'.val.updatedAt = Today]_vars

\* the status that belongs to a stage
StatusOfStage(stage) ==
  CASE stage = "closed-won" -> "won"
    [] stage = "closed-lost" -> "lost"
    [] stage \in {"qualification", "proposal", "negotiation"} -> "active"
    [] OTHER -> "none"

\* C14: every deal of the store has a stage, and its status is the one that
\* belongs to that stage.
C14_StatusDerivedFromStage ==
  \A i \in 1..Len(deals) :
    /\ "stage" \in DOMAIN deals[i]
    /\ deals[i].status = StatusOfStage(deals[i].stage)

\* the positions of the won deals of the customer with this id
WonDealsOf(id) ==
  {n \in 1..Len(deals) :
     "customerId" \in DOMAIN deals[n] /\ deals[n].customerId = id /\ deals[n].status = "won"}

RECURSIVE SumOfValues(_)
\* the sum of the values of the deals at the positions in S
SumOfValues(S) ==
  IF S = {} THEN 0
  ELSE LET n == CHOOSE n \in S : TRUE IN deals[n].value + SumOfValues(S \ {n})

\* every won deal of the customer has a value, so their sum is a number
HasWonSum(id) == \A n \in WonDealsOf(id) : "value" \in DOMAIN deals[n]

WonSum(id) == SumOfValues(WonDealsOf(id))

\* the customers (by position) whose won-deal sum is a number above 0
Qualifying ==
  {i \in 1..Len(customers) : HasWonSum(customers[i].id) /\ WonSum(customers[i].id) > 0}

\* a customer together with its won-deal sum, as an entry of topCustomers
TopEntry(i) == Spread(customers[i], [dealValue |-> Num(WonSum(customers[i].id))])

\* C12: topCustomers has at most 5 entries; each is a customer of the store
\* together with its won-deal sum as dealValue, which is above 0; no customer
\* is listed more often than the store holds it; the entries are in
\* non-increasing order of dealValue; no qualifying customer is left out while
\* there is room, and none that is left out has a larger sum than an entry.
C12_TopCustomers ==
  call.op = "stats" =>
    LET top == result.val.topCustomers
        Listed(e) == Cardinality({k \in 1..Len(top) : top[k] = e})
        Stored(e) == Cardinality({i \in Qualifying : TopEntry(i) = e})
    IN  /\ Len(top) <= 5
        /\ \A k \in 1..Len(top) :
             /\ \E i \in Qualifying : top[k] = TopEntry(i)
             /\ top[k].dealValue.n > 0
             /\ Listed(top[k]) <= Stored(top[k])
        /\ \A k \in 1..(Len(top) - 1) : top[k].dealValue.n >= top[k + 1].dealValue.n
        /\ \A i \in Qualifying :
             Listed(TopEntry(i)) < Stored(TopEntry(i))
               => /\ Len(top) = 5
                  /\ \A k \in 1..Len(top) :
                       WonSum(customers[i].id) <= top[k].dealValue.n

\* C12 witness: getDashboardStats has returned for a store in which more than
\* five customers qualify and the largest sum is not the first customer's
C12_Witness ==
  /\ call.op = "stats"
  /\ Cardinality(Qualifying) > 5
  /\ Len(result.val.topCustomers) = 5
  /\ result.val.topCustomers[1].id # customers[1].id
  /\ result.val.topCustomers[1].dealValue.n > result.val.topCustomers[5].dealValue.n

\* the positions of the active deals in a stage
InStage(stage) ==
  {n \in 1..Len(deals) :
     "stage" \in DOMAIN deals[n] /\ deals[n].stage = stage /\ deals[n].status = "active"}

\* the k-th smallest element of a set of positions
Kth(S, k) == CHOOSE n \in S : Cardinality({m \in S : m < n}) = k - 1

PipelineStages == {"qualification", "proposal", "negotiation"}

\* C19: the pipeline returned by getDashboardStats has exactly the buckets
\* qualification, proposal and negotiation, and each bucket lists, in store
\* order, exactly the deals of the store with that stage and status 'active'.
C19_PipelineBuckets ==
  call.op = "stats" =>
    LET pipeline == result.val.pipeline
    IN  /\ DOMAIN pipeline = PipelineStages
        /\ \A stage \in PipelineStages :
             /\ Len(pipeline[stage]) = Cardinality(InStage(stage))
             /\ \A k \in 1..Len(pipeline[stage]) :
                  pipeline[stage][k] = deals[Kth(InStage(stage), k)]

\* C19 witness: getDashboardStats has returned a non-empty bucket for a store
\* that holds a deal in a pipeline stage whose status is not 'active'
C19_Witness ==
  /\ call.op = "stats"
  /\ \E stage \in PipelineStages : Len(result.val.pipeline[stage]) > 0
  /\ \E n \in 1..Len(deals) :
       /\ "stage" \in DOMAIN deals[n]
       /\ deals[n].stage \in PipelineStages
       /\ deals[n].status # "active"

\* the positions of the records of a list with a status
WithStatus(list, status) == {n \in 1..Len(list) : list[n].status = status}

\* the sum of the values of the deals with a status: a number when each of
\* them has a value, NaN otherwise
ValueOfStatus(status) ==
  IF \A n \in WithStatus(deals, status) : "value" \in DOMAIN deals[n]
  THEN Num(SumOfValues(WithStatus(deals, status)))
  ELSE NaN

RECURSIVE RevenueOf(_)
\* the sum of the revenues of the customers at the positions in S
RevenueOf(S) ==
  IF S = {} THEN 0
  ELSE LET n == CHOOSE n \in S : TRUE
       IN  (IF "revenue" \in DOMAIN customers[n] THEN customers[n].revenue ELSE 0)
           + RevenueOf(S \ {n})

\* the counts and sums in the returned object are those of the store
StatsOfStore ==
  LET stats == result.val
  IN  /\ stats.totalCustomers = Len(customers)
      /\ stats.activeCustomers = Cardinality(WithStatus(customers, "active"))
      /\ stats.totalContacts = Len(contacts)
      /\ stats.totalDeals = Len(deals)
      /\ stats.activeDeals = Cardinality(WithStatus(deals, "active"))
      /\ stats.wonDeals = Cardinality(WithStatus(deals, "won"))
      /\ stats.lostDeals = Cardinality(WithStatus(deals, "lost"))
      /\ stats.totalDealValue = ValueOfStatus("active")
      /\ stats.wonDealValue = ValueOfStatus("won")
      /\ stats.totalRevenue = RevenueOf(1..Len(customers))

\* C20: a getDashboardStats call changes none of the four lists, and the
\* counts and sums it returns are those of the store it read, whatever
\* create, update and delete calls completed before it.
C20_StatsOfCurrentStore ==
  [][call'.op = "stats" => (lists' = lists /\ StatsOfStore')]_vars

\* C20 witness: getDashboardStats has returned after calls that changed the
\* number of customers and of deals
C20_Witness ==
  /\ call.op = "stats"
  /\ result.val.totalCustomers # Len(SeedCustomers)
  /\ result.val.totalDeals # Len(SeedDeals)

\* the positions in list of the records whose customerId is customerId
MatchingCustomer(list, customerId) ==
  {n \in 1..Len(list) :
     "customerId" \in DOMAIN list[n] /\ list[n].customerId = customerId}

\* items are the records of list at the positions S, in the order of list
ShownRows(list, S, items) ==
  /\ Len(items) = Cardinality(S)
  /\ \A k \in 1..Len(items) : items[k] = list[Kth(S, k)]

\* C13: a successful deleteCustomer(id) leaves the contact, deal and
\* activity lists exactly unchanged, and a getContacts(id) or getDeals(id)
\* that follows it returns every stored contact or deal whose customerId
\* is the deleted id.
C13_DeleteNeverCascades ==
  [][/\ (MutatingStep /\ call'.op = "delete" /\ call'.ent = "customers"
           /\ result'.kind = "success")
          => (contacts' = contacts /\ deals' = deals /\ activities' = activities)
     /\ (/\ call.op = "delete" /\ call.ent = "customers" /\ result.kind = "success"
         /\ call'.op = "list" /\ call'.ent \in {"contacts", "deals"}
         /\ call'.id = call.id)
          => ShownRows(EntList(call'.ent),
                       MatchingCustomer(EntList(call'.ent), call.id),
                       result'.val.items)]_vars

\* customer 1 has been deleted and getContacts(1) still returns its contact
C13_Witness ==
  /\ call.op = "list" /\ call.ent = "contacts" /\ call.id = 1
  /\ ~HasId(customers, 1)
  /\ Len(result.val.items) > 0
  /\ \A k \in 1..Len(result.val.items) : result.val.items[k].customerId = 1

\* what a list read returned: a new array holding want(list) of its list
ListReadOf(matching) ==
  /\ result.val.ref = "fresh"
  /\ IF matching
     THEN ShownRows(EntList(call.ent), MatchingCustomer(EntList(call.ent), call.id),
                    result.val.items)
     ELSE result.val.items = EntList(call.ent)

\* C17 (as stated): a list read with an argument returns exactly the records
\* whose customerId equals the argument, a list read without one returns all
\* records, in store order and as a new list.
C17_ListReads ==
  call.op = "list" => ListReadOf(call.id # NoArg)

\* C17 (amended): a list read with a non-empty customerId returns exactly the
\* records whose customerId equals it; without an argument or with the empty
\* string it returns all records; always in store order and as a new list,
\* so that a push onto or a pop from the returned list leaves the store as
\* it is.
C17_ListReadsNonEmptyId ==
  [][/\ call'.op = "list" => ListReadOf(Truthy(call.id))'
     /\ (call'.op \in {"push", "pop"} /\ call.op = "list") => lists' = lists]_vars

\* the caller has changed the list that getDeals(1) returned, which was a
\* proper part of the stored deals
C17_Witness ==
  /\ call.op \in {"push", "pop"} /\ call.ent = "deals" /\ call.id = 1
  /\ MatchingCustomer(deals, 1) # {}
  /\ MatchingCustomer(deals, 1) # 1..Len(deals)
  /\ Len(result.val.items) # Cardinality(MatchingCustomer(deals, 1))

\* how often e occurs in list
Occurrences(list, e) == Cardinality({n \in 1..Len(list) : list[n] = e})

\* C18: getActivities(limit) with limit >= 0 returns min(limit, number of
\* activities) activities, those with the latest timestamps, latest first;
\* without an argument the limit is 10; the stored activity list and its
\* order are unchanged.
C18_LatestActivities ==
  [][(call'.op = "activities" /\ (call'.id = NoArg \/ call'.id >= 0))
       => LET limit == IF call'.id = NoArg THEN 10 ELSE call'.id
              items == result'.val.items
          IN  /\ Len(items) = IF limit < Len(activities) THEN limit ELSE Len(activities)
              /\ \A k \in 1..(Len(items) - 1) :
                   items[k].timestamp >= items[k + 1].timestamp
              /\ \A k \in 1..Len(items) :
                   /\ Occurrences(activities, items[k]) > 0
                   /\ Occurrences(items, items[k]) <= Occurrences(activities, items[k])
              /\ \A n \in 1..Len(activities) :
                   Occurrences(items, activities[n]) < Occurrences(activities, activities[n])
                     => \A k \in 1..Len(items) :
                          items[k].timestamp >= activities[n].timestamp
              /\ activities' = activities]_vars

\* getActivities(3) returned three of the eight activities, which are stored
\* in another order
C18_Witness ==
  /\ call.op = "activities" /\ call.id = 3
  /\ Len(result.val.items) = 3
  /\ Len(activities) > 3
  /\ result.val.items # SubSeq(activities, 1, 3)
  /\ result.val.items[1].timestamp > result.val.items[3].timestamp

\* the step resumes the oldest call in flight
ResumeStep == inflight # << >> /\ Len(inflight') = Len(inflight) - 1

\* the call that a ResumeStep resumes
Resumed == Head(inflight)

\* the call that completed last while the resumed call was in flight
SeenLast == Resumed.seen[Len(Resumed.seen)]

\* C15: when two updates of the same existing id are in flight at once,
\* the second to resume succeeds as the first did, and for every field that
\* both supplied its record has the value of the second.
C15_LastWriteWins ==
  [][(/\ ResumeStep
      /\ Resumed.op = "update" /\ Resumed.seen # << >>
      /\ SeenLast.op = "update" /\ SeenLast.ent = Resumed.ent
      /\ SeenLast.id = Resumed.id /\ SeenLast.kind = "record")
       => /\ result'.kind = "record"
          /\ \A f \in DOMAIN SeenLast.data \cap DOMAIN Resumed.data :
               result'.val[f] = Resumed.data[f]]_vars

\* another create on the same list was in flight together with the resumed
\* call
CreateInFlightWith ==
  \/ \E k \in 2..Len(inflight) :
       inflight[k].op = "create" /\ inflight[k].ent = Resumed.ent
  \/ \E k \in 1..Len(Resumed.seen) :
       Resumed.seen[k].op = "create" /\ Resumed.seen[k].ent = Resumed.ent

\* C16: when creates on the same list are in flight at once, each one that
\* resumes makes its list longer by one, and the id of its record differs
\* from every id that was in the list.
C16_NoCreateLostNoIdCollides ==
  [][(ResumeStep /\ Resumed.op = "create" /\ CreateInFlightWith)
       => /\ Len(EntListNext(Resumed.ent)) = Len(EntList(Resumed.ent)) + 1
          /\ ~HasId(EntList(Resumed.ent), result'.val.id)]_vars

\* C27: createX appends its record at the end of the list; a successful
\* updateX replaces the first record carrying the id in place and moves no
\* record; a successful deleteX removes that record only and keeps the order
\* of the others.
C27_InsertionOrderKept ==
  [][MutatingStep =>
       LET list == EntList(call'.ent)
           after == EntListNext(call'.ent)
           at == FirstAt(list, call'.id)
       IN  /\ call'.op = "create" => after = Append(list, result'.val)
           /\ (call'.op = "update" /\ result'.kind = "record")
                => /\ Len(after) = Len(list)
                   /\ after[at] = result'.val
                   /\ \A j \in 1..Len(list) : j # at => after[j] = list[j]
           /\ (call'.op = "delete" /\ result'.kind = "success")
                => after = SubSeq(list, 1, at - 1) \o SubSeq(list, at + 1, Len(list))]_vars

\* customer 1 was deleted from a list that a create had extended: customer 2
\* and the new record are left, in that order
C27_Witness ==
  /\ call.op = "delete" /\ call.ent = "customers" /\ call.id = 1
  /\ result.kind = "success"
  /\ Len(customers) = 2
  /\ customers[1].id = 2
  /\ customers[2].id > UuidBase

\* the fields of a partial that an update stores as given
Supplied(data) == DOMAIN data \ {"updatedAt"}

\* the resumed call is the second of two calls on the same id, the first of
\* which has op `first` and went through
SecondOfPair(first, second) ==
  /\ ResumeStep
  /\ Resumed.op = second /\ Resumed.seen # << >>
  /\ SeenLast.op = first /\ SeenLast.ent = Resumed.ent /\ SeenLast.id = Resumed.id
  /\ SeenLast.kind \in {"record", "success"}

\* C24: when two updates of the same existing id are in flight at once with
\* disjoint sets of fields, the second succeeds and the record it returns
\* carries the values of both partials (updatedAt, which every update
\* stamps, left aside).
C24_NoLostUpdate ==
  [][(SecondOfPair("update", "update")
        /\ DOMAIN SeenLast.data \cap DOMAIN Resumed.data = {})
       => /\ result'.kind = "record"
          /\ \A f \in Supplied(SeenLast.data) : result'.val[f] = SeenLast.data[f]
          /\ \A f \in Supplied(Resumed.data) : result'.val[f] = Resumed.data[f]]_vars

\* C25: when a delete and an update of the same existing id are in flight at
\* once, the id is absent once both have completed: after the delete the
\* update fails with the not-found error and changes no list, after the
\* update the delete succeeds.
C25_DeleteWinsOverUpdate ==
  [][/\ SecondOfPair("delete", "update")
          => /\ result' = Thrown(NotFoundMsg(Resumed.ent))
             /\ lists' = lists
             /\ ~HasId(EntListNext(Resumed.ent), Resumed.id)
     /\ SecondOfPair("update", "delete")
          => /\ result' = Success
             /\ Len(EntListNext(Resumed.ent)) = Len(EntList(Resumed.ent)) - 1
             /\ ~HasId(EntListNext(Resumed.ent), Resumed.id)]_vars

\* the step is window.confirm returning for the customer id of the dialog
ConfirmStep == page.dialog # None /\ page'.dialog = None

\* the step makes a deleteCustomer call
DeleteCallMade ==
  /\ Len(inflight') = Len(inflight) + 1
  /\ inflight'[Len(inflight')].op = "delete"

\* the step is a deleteCustomer call of the page completing
DeleteCompletes == MutatingStep /\ call'.op = "delete"

\* the page makes a deleteCustomer call only when window.confirm returns
\* true, and then for the customer of the dialog; when it returns false no
\* call is made; either way the store and the page's list are as before
DeleteOnlyConfirmed ==
  /\ DeleteCallMade => (ConfirmStep /\ page'.answer)
  /\ ConfirmStep
       => /\ lists' = lists
          /\ page'.customers = page.customers
          /\ IF page'.answer
             THEN inflight' = Append(inflight, Pending("delete", "customers", page.dialog[1], EmptyObj))
             ELSE inflight' = inflight

\* C22 (as stated): deleteCustomer is called only after the dialog is
\* accepted; a dismissed dialog makes no call and leaves the store and the
\* page's list unchanged; every accepted delete makes the page's list
\* shorter by exactly one when it completes.
C22_DeleteAfterConfirm ==
  [][/\ DeleteOnlyConfirmed
     /\ DeleteCompletes => Len(page'.customers) = Len(page.customers) - 1]_vars

\* C22 (amended): as above, but the page's list becomes shorter by exactly
\* one when the delete call succeeds; when it fails with the not-found error
\* the list is unchanged and error is set to the message.
C22_DeleteAfterConfirmSucceeds ==
  [][/\ DeleteOnlyConfirmed
     /\ DeleteCompletes
          => IF result'.kind = "success"
             THEN Len(page'.customers) = Len(page.customers) - 1
             ELSE /\ page'.customers = page.customers
                  /\ page'.error = "Customer not found"]_vars

\* a dialog was dismissed after an accepted delete had removed a customer
\* from the store and from the page
C22_Witness ==
  /\ ~page.answer /\ page.dialog = None
  /\ steps = MaxSteps - PageCalls + 1
  /\ call.op = "delete" /\ result.kind = "success"
  /\ inflight = << >>
  /\ Len(page.customers) = 1 /\ Len(customers) = 1

\* C23: once the page is mounted and none of its service calls is in
\* flight (so at least the fetch of the mount has completed), the page's
\* list is the store's customer list, record by record.
C23_PageListIsStore ==
  (page.mounted /\ inflight = << >>) => page.customers = customers

\* all the page's writes have completed, one of them with the not-found
\* error and one changing a record, and nothing is in flight
C23_Witness ==
  /\ page.mounted /\ inflight = << >>
  /\ steps = MaxSteps
  /\ page.error # Null
  /\ \E i \in 1..Len(customers) : customers[i].name = "Test Inc"
  /\ page.customers = customers

\* C26: editingCustomer is non-null only while the modal is open.
C26_EditingOnlyWhileModalOpen ==
  page.editingCustomer # None => page.showModal

\* C29: once error is set on the Customers page, no step sets it back to
\* null.
C29_ErrorSticky ==
  [][page.error # Null => page'.error # Null]_vars

\* a Retry has been pressed and its fetch has completed, a create made after
\* that has succeeded, and error is still set
C29_Witness ==
  /\ page.error # Null
  /\ call.op = "create" /\ result.kind = "record"
  /\ steps = MaxSteps
  /\ ~page.loading /\ inflight = << >>
  /\ page.customers = customers

\* the text has a character that is not white space
NonBlank(s) == \E i \in 1..Len(s) : s[i] # " "

\* the text is local@domain with no white space and a single @, a non-empty
\* local part, and a dot inside the domain with a character on either side
EmailFormat(s) ==
  /\ \A i \in 1..Len(s) : s[i] # " "
  /\ Cardinality({i \in 1..Len(s) : s[i] = "@"}) = 1
  /\ LET at == CHOOSE i \in 1..Len(s) : s[i] = "@"
     IN  /\ at > 1
         /\ \E dot \in (at + 2)..(Len(s) - 1) : s[dot] = "."

\* the data passes the checks of the claim
ValidData(d) ==
  /\ NonBlank(d.name) /\ NonBlank(d.email) /\ NonBlank(d.phone)
  /\ NonBlank(d.industry) /\ NonBlank(d.address.city) /\ NonBlank(d.address.state)
  /\ EmailFormat(d.email)

\* the message that belongs to an error key, for the data d
MessageOf(key, d) ==
  CASE key = "name" -> "Company name is required"
    [] key = "email" -> IF NonBlank(d.email) THEN "Please enter a valid email address"
                        ELSE "Email is required"
    [] key = "phone" -> "Phone number is required"
    [] key = "industry" -> "Industry is required"
    [] key = "city" -> "City is required"
    [] OTHER -> "State is required"

\* the error keys of the fields of d that fail a check
FailedKeys(d) ==
  {k \in {"name", "phone", "industry"} : ~NonBlank(d[k])}
    \cup {k \in {"city", "state"} : ~NonBlank(d.address[k])}
    \cup (IF NonBlank(d.email) /\ EmailFormat(d.email) THEN {} ELSE {"email"})

\* C21: a step makes a service call only if it is a submit of data in which
\* name, email, phone, industry, city and state are non-blank and the email
\* has the email format, and the call carries that data; a submit of other
\* data makes no call, leaves the store unchanged and sets the error
\* message of every failing field.
C21_SubmitOnlyValid ==
  [][/\ Len(inflight') > Len(inflight)
          => /\ call'.op = "submit" /\ ValidData(form.formData)
             /\ inflight'[Len(inflight')].data = form.formData
     /\ (call'.op = "submit" /\ ~ValidData(form.formData))
          => /\ inflight' = inflight
             /\ lists' = lists
             /\ result'.val = FALSE
             /\ DOMAIN form'.errors = FailedKeys(form.formData)
             /\ \A k \in DOMAIN form'.errors :
                  form'.errors[k] = MessageOf(k, form.formData)]_vars

\* after a submit that set error messages the fields were corrected, and the
\* next submit has made the create call with the valid data
C21_Witness ==
  /\ call.op = "submit" /\ result.val = TRUE
  /\ inflight # << >>
  /\ inflight[Len(inflight)].op = "create"
  /\ inflight[Len(inflight)].data = form.formData
  /\ form.formData.email = <<"a", "@", "b", ".", "c">>
  /\ form.formData.name = <<"a">>
  /\ form.loading
  /\ steps = 0

\* C28: whenever the Dashboard has loading false and error null, stats is
\* non-null; and once mounted, the page reaches loading false.
C28_StatsBeforeMainView ==
  /\ []((~dash.loading /\ dash.error = Null) => dash.stats # None)
  /\ (dash.mounted ~> ~dash.loading)

\* both calls were fulfilled: the main view is shown with the stats and the
\* eight latest activities
C28_Witness ==
  /\ ~dash.loading /\ dash.error = Null
  /\ dash.stats # None
  /\ dash.stats[1].totalCustomers = Len(customers)
  /\ Len(dash.activities) = DashLimit
  /\ dash.waiting = {}

\* C30: once every fetch the hook started has completed, loading is false,
\* data is the response of the most recently started fetch if that fetch
\* succeeded, and error is non-null only if that fetch failed.
C30_LatestFetchWins ==
  LET started == Len(hook.fetches)
      latest == hook.fetches[started]
  IN  (started > 0 /\ \A n \in 1..started : hook.fetches[n].state # "pending")
        => /\ ~hook.loading
           /\ latest.state = "ok" => hook.data = <<Response(started, latest.url)>>
           /\ hook.error # Null => latest.state = "failed"

====
